---- MODULE Spec2Model ----
(***************************************************************************)
(* State-machine model of AudioStreamCapture (conference audio capture):   *)
(* the capture manager's fields, the browser objects it drives (audio      *)
(* graph connections, interval/timeout timers, MediaRecorder, Redux store  *)
(* subscription) and one action per method or callback.  Every handler is  *)
(* one atomic step: the code runs on the single JavaScript event loop and  *)
(* the only await is the chunk read in mediaRecorder.ondataavailable.      *)
(***************************************************************************)
EXTENDS Integers, Sequences, FiniteSets, TLC

(* ------------------------------ bounds -------------------------------- *)

\* largest number of tracks the external store reports at once, and of
\* sources registered at once
MaxTracks == 2

\* largest number of encoded-chunk reads (Blob.arrayBuffer()) in flight
MaxInflight == 1

\* largest number of sources with connections left behind by a failure
MaxLeaks == 1

(* ------------------------- program constants -------------------------- *)

\* AudioStreamCapture.VAD_SILENCE_DURATION, in ms
VAD_SILENCE_DURATION == 500

\* options.levelInterval default, in ms
LevelIntervalMs == 100

\* options.vadThreshold default 0.01, in thousandths
VadThreshold == 10

\* full scale of a sample, in hundredths (a sample of 1.0)
FullScale == 100

\* sampler periods that make up the silence delay
VadTicks == VAD_SILENCE_DURATION \div LevelIntervalMs

NoTimer == 0 - 1

(* ----------------------------- universes ------------------------------ *)

LocalKey == "local-audio"

\* sourceKey of a reported track (syncTracksFromStore)
TrackIdOf(track) ==
    IF track.local THEN LocalKey ELSE "remote-" \o track.participantId

Track(mt, loc, p, jt) ==
    [mediaType |-> mt, local |-> loc, participantId |-> p, jitsiTrack |-> jt]

\* the tracks the external store may report.  jitsiTrack: "stream" (has a
\* MediaStream), "nostream" (jitsiTrack present, no stream), "none".
TrackUniverse ==
    { Track("audio", TRUE,  "me", "stream"),
      Track("audio", FALSE, "A",  "stream"),
      Track("audio", FALSE, "B",  "stream"),
      Track("audio", FALSE, "A",  "none"),
      Track("audio", FALSE, "B",  "nostream"),
      Track("video", FALSE, "B",  "stream") }

\* the reported tracks that carry a stream
StreamTracks == { t \in TrackUniverse : t.mediaType = "audio" /\ t.jitsiTrack = "stream" }

\* the lists the store may report, drawn from the tracks in U
TrackLists(U) == { L \in SUBSET U : Cardinality(L) <= MaxTracks }

Keys == { TrackIdOf(t) : t \in TrackUniverse }

\* participantId handed to addTrack for a key: track.participantId || 'local'
PidOf(k) == IF k = LocalKey THEN "me" ELSE IF k = "remote-A" THEN "A" ELSE "B"

\* the option overlays the host starts a session with (defaults, lines 131-143)
Config(raw, lv, vad, il, ir) ==
    [rawPCM |-> raw, enableLevels |-> lv, enableVAD |-> vad,
     includeLocal |-> il, includeRemote |-> ir, vadThreshold |-> VadThreshold]

DefaultConfig == Config(FALSE, TRUE, TRUE, TRUE, TRUE)

\* sessions with the encoder: the defaults; levels off and local audio left out
EncodedConfigs == { DefaultConfig, Config(FALSE, FALSE, TRUE, FALSE, TRUE) }

RawConfig == Config(TRUE, TRUE, TRUE, TRUE, TRUE)

\* raw-PCM sessions: otherwise the defaults; VAD off and remote audio left out
RawConfigs == { RawConfig, Config(TRUE, TRUE, FALSE, TRUE, FALSE) }

\* a raw-PCM session that reports levels and runs no VAD
LevelsConfig == Config(TRUE, TRUE, FALSE, TRUE, TRUE)

\* a raw-PCM session without the level sampler, VAD asked for
NoLevelsConfig == Config(TRUE, FALSE, TRUE, TRUE, TRUE)

Configs == EncodedConfigs \cup RawConfigs

\* options = {} before the first start(): every field undefined (falsy)
NoOptions == Config(FALSE, FALSE, FALSE, FALSE, FALSE)

\* audio-graph connections made for one source by addTrack
Conn == {"src_an", "src_dest", "an_sp", "sp_out"}

\* where addTrack's setup may throw: createMediaStreamSource, or the step
\* after source->analyser (connect to the mix destination / createScriptProcessor)
AddFails == {"none", "source", "tap"}

\* which disconnect() call throws during teardown of one source
DiscFails == {"none", "source", "analyser", "script"}

\* where start() may throw
StartFails == {"none", "context", "mime", "recorder", "subscribe"}

\* analyser windows read by the sampler (samples in hundredths of full scale):
\* silence and a full-scale sine
Silence == <<0, 0, 0, 0>>
Sine == <<0, FullScale, 0, 0 - FullScale>>
Windows == { Silence, Sine }

\* a full-scale square wave (RMS 1) and a sine at half scale
Square == <<FullScale, FullScale, 0 - FullScale, 0 - FullScale>>
HalfSine == <<0, FullScale \div 2, 0, 0 - (FullScale \div 2)>>
LoudWindows == Windows \cup { Square, HalfSine }

(* --------------------------- pure functions --------------------------- *)

Min(a, b) == IF a < b THEN a ELSE b

RECURSIVE SumSquares(_, _)
SumSquares(w, i) ==
    IF i > Len(w) THEN 0 ELSE w[i] * w[i] + SumSquares(w, i + 1)

\* floor of the square root
Sqrt(n) == CHOOSE r \in 0..(FullScale + 1) : r * r <= n /\ n < (r + 1) * (r + 1)

\* faulty variant: the level is not clamped to 1
LevelOfUnclamped(w) == Sqrt(SumSquares(w, 1) \div Len(w)) * 14

\* startLevelMonitoring: rms = sqrt(sumSquares / length); level = min(1, rms * 1.4)
\* rms in hundredths, level in thousandths
LevelOf(w) == Min(1000, Sqrt(SumSquares(w, 1) \div Len(w)) * 14)

\* the level of each window the sampler may read
Levels == [w \in LoudWindows |-> LevelOf(w)]

\* a raw-PCM session whose host sets vadThreshold to the level that the
\* audio-levels messages report for the full-scale sine
EdgeConfig == [RawConfig EXCEPT !.vadThreshold = Levels[Sine]]

(* ------------------------------- state -------------------------------- *)

VARIABLES
    audioContext,           \* this.audioContext is set (and not closed)
    destinationNode,        \* this.destinationNode is set
    mediaRecorder,          \* "null", or the recorder's state: "recording" / "inactive"
    tracks,                 \* this.tracks: sourceKey -> TrackInfo
    isCapturing,
    isTranscriptionEnabled,
    options,
    store,                  \* this.store is set
    unsubscribe,            \* this.unsubscribe is set
    previousTrackIds,
    levelInterval,          \* this.levelInterval is set
    \* the environment the manager drives
    listener,               \* the store holds the manager's subscription
    intervalActive,         \* the setInterval timer of the sampler is live
    timers,                 \* pending VAD setTimeout per source: periods left, or NoTimer
    wired,                  \* connections of the nodes held by registry entries, per source
    leaked,                 \* connections of nodes no entry refers to any more, per source
    chunkReads,             \* chunk reads (await arrayBuffer()) in flight
    flushPending,           \* a stopped recorder still owes its final dataavailable
    \* what the last step did
    last,                   \* [op, fail, failed]: the call or callback, the failure it met,
                            \* the sources it failed to set up
    emitted,                \* events posted to the host by the last step, in order
    cleared,                \* sources whose pending silence timer the last step cancelled
    afterStop,              \* stop() has returned on a capturing session, no start() since
    voiced,                 \* per participant under observation, the last voice-activity
                            \* the session posted
    \* the page's redux store
    transcriptionEnabled    \* state['features/audio-capture'].transcriptionEnabled

codeVars ==
    <<audioContext, destinationNode, mediaRecorder, tracks, isCapturing,
      isTranscriptionEnabled, options, store, unsubscribe, previousTrackIds,
      levelInterval>>

envVars ==
    <<listener, intervalActive, timers, wired, leaked, chunkReads,
      flushPending>>

vars == <<codeVars, envVars, last, emitted, cleared, afterStop,
                   voiced, transcriptionEnabled>>

(* ------------------------------ events -------------------------------- *)

\* the messages sendToParent, sendStatusToParent and
\* sendTranscriptionStatusToParent post; the page is embedded in the host's
\* window (window.parent !== window), so every one of them is posted

\* levels: the levels object of an audio-levels message, participantId -> level
NoLevels == <<>>

Event(t, s, w, f) ==
    [type |-> t, status |-> s, who |-> w, flag |-> f, levels |-> NoLevels]

StatusEvent(s)        == Event("capture-status", s, {}, FALSE)
TranscriptionEvent(b) == Event("transcription-status", "", {}, b)
VoiceEvent(p, b)      == Event("voice-activity", "", {p}, b)
LevelsEvent(lv)       == [Event("audio-levels", "", DOMAIN lv, FALSE) EXCEPT !.levels = lv]
ChunkEvent            == Event("audio-chunk", "", {}, FALSE)
PcmEvent(p)           == Event("pcm-frame", "", {p}, FALSE)

\* the participants of the sources
Pids == { PidOf(k) : k \in Keys }

\* every participant under observation, no voice-activity message posted yet
NoVoice == [p \in Pids |-> "none"]

\* no participant under observation
Unobserved == [p \in {} |-> "none"]

\* the observation at the beginning and at the end of a session
NewSession(v) == [p \in DOMAIN v |-> "none"]

\* the last voice-activity value per observed participant after the messages
\* es[i], es[i+1], ... were posted: "on" for speaking:true, "off" for
\* speaking:false
RECURSIVE Voiced(_, _, _)
Voiced(v, es, i) ==
    IF i > Len(es) THEN v
    ELSE IF es[i].type = "voice-activity"
         THEN Voiced([p \in DOMAIN v |-> IF p \in es[i].who
                                     THEN (IF es[i].flag THEN "on" ELSE "off")
                                     ELSE v[p]], es, i + 1)
         ELSE Voiced(v, es, i + 1)

\* the reducer's DEFAULT_STATE.transcriptionEnabled
DEFAULT_STATE == TRUE

Last(op, fail) == [op |-> op, fail |-> fail, failed |-> {}]

\* the same for a step that reconciles: failed holds the keys for which the
\* setup of addTrack threw
LastSync(op, fail, addf) ==
    [op |-> op, fail |-> fail, failed |-> { k \in DOMAIN addf : addf[k] # "none" }]

NoWiring == [k \in Keys |-> {}]
NoTimers == [k \in Keys |-> NoTimer]
NoTracks == [k \in {} |-> 0]
NoAddFail == [k \in Keys |-> "none"]
NoDiscFail == [k \in Keys |-> "none"]

InitState ==
    /\ audioContext = FALSE
    /\ destinationNode = FALSE
    /\ mediaRecorder = "null"
    /\ tracks = NoTracks
    /\ isCapturing = FALSE
    /\ isTranscriptionEnabled = TRUE
    /\ options = NoOptions
    /\ store = FALSE
    /\ unsubscribe = FALSE
    /\ previousTrackIds = {}
    /\ levelInterval = FALSE
    /\ listener = FALSE
    /\ intervalActive = FALSE
    /\ timers = NoTimers
    /\ wired = NoWiring
    /\ leaked = NoWiring
    /\ chunkReads = 0
    /\ flushPending = FALSE
    /\ last = Last("init", "none")
    /\ emitted = <<>>
    /\ cleared = {}
    /\ afterStop = FALSE
    /\ transcriptionEnabled = DEFAULT_STATE

\* the manager after construction, no participant's messages observed
Init == InitState /\ voiced = Unobserved

\* the manager after construction, every participant's messages observed
InitVoice == InitState /\ voiced = NoVoice

(* ------------------------- addTrack / removeTrack --------------------- *)

TrackInfo(pid, sp) ==
    [participantId |-> pid, scriptProcessor |-> sp, lastLevel |-> 0,
     isSpeaking |-> FALSE, vadTimeout |-> FALSE]

\* faulty variant of AddTrackSkips: the check for a registered key is missing
AddTrackSkipsNoGraph(trk, ctx, dst, k) == ~ctx \/ ~dst

\* addTrack returns early: no graph, or the key is already registered
AddTrackSkips(trk, ctx, dst, k) == ~ctx \/ ~dst \/ k \in DOMAIN trk

\* connections addTrack makes before it completes or throws at `fail`
AddTrackConns(raw, fail) ==
    CASE fail = "source" -> {}
      [] fail = "tap"    -> {"src_an"}
      [] OTHER           -> IF raw THEN {"src_an", "an_sp", "sp_out"}
                                   ELSE {"src_an", "src_dest"}

\* faulty variant of AddTrackResult: the entry is registered before the
\* setup has run, and stays when it throws
AddTrackResultEarly(st, ctx, dst, raw, k, pid, fail) ==
    IF AddTrackSkips(st.tracks, ctx, dst, k) THEN st
    ELSE [st EXCEPT !.tracks = (k :> TrackInfo(pid, raw)) @@ st.tracks,
                    !.wired = [@ EXCEPT ![k] = AddTrackConns(raw, fail)]]

\* addTrack on the registry and the graph: st = [tracks, wired, leaked]
AddTrackResult(st, ctx, dst, raw, k, pid, fail) ==
    IF AddTrackSkips(st.tracks, ctx, dst, k) THEN st
    ELSE IF fail = "none"
         THEN [st EXCEPT !.tracks = (k :> TrackInfo(pid, raw)) @@ st.tracks,
                         !.wired = [@ EXCEPT ![k] = AddTrackConns(raw, fail)]]
         ELSE [st EXCEPT !.leaked = [@ EXCEPT ![k] = @ \cup AddTrackConns(raw, fail)]]

\* what stays connected when the disconnect calls of one source run and
\* the call named by df throws (the catch swallows it)
Disconnect(c, sp, df) ==
    CASE df = "source"   -> c
      [] df = "analyser" -> c \ {"src_an", "src_dest"}
      [] df = "script"   -> IF sp THEN c \ {"src_an", "src_dest", "an_sp"} ELSE {}
      [] OTHER           -> {}

\* removeTrack clears the entry's pending silence timer
RemoveTrackTimer(info, t) == IF info.vadTimeout THEN NoTimer ELSE t

\* removeTrack: st = [tracks, wired, leaked, timers, cleared]
RemoveTrackResult(st, k, df) ==
    IF k \notin DOMAIN st.tracks THEN st
    ELSE LET info == st.tracks[k]
             rest == Disconnect(st.wired[k], info.scriptProcessor, df)
         IN  [tracks  |-> [j \in DOMAIN st.tracks \ {k} |-> st.tracks[j]],
              wired   |-> [st.wired EXCEPT ![k] = {}],
              leaked  |-> [st.leaked EXCEPT ![k] = @ \cup rest],
              timers  |-> [st.timers EXCEPT ![k] = RemoveTrackTimer(info, @)],
              cleared |-> IF info.vadTimeout /\ RemoveTrackTimer(info, st.timers[k]) = NoTimer
                          THEN st.cleared \cup {k} ELSE st.cleared]

\* the disconnect failures that can happen for an entry
DiscFailsOf(info) ==
    IF info.scriptProcessor THEN DiscFails ELSE DiscFails \ {"script"}

(* ------------------------- syncTracksFromStore ------------------------ *)

\* a reported track passes the filters of the forEach (lines 320-334)
Eligible(track, opt) ==
    /\ track.mediaType = "audio"
    /\ track.jitsiTrack # "none"
    /\ ~(track.local /\ ~opt.includeLocal)
    /\ ~(~track.local /\ ~opt.includeRemote)

\* the forEach over the reported tracks: st = [tracks, wired, leaked, current]
RECURSIVE SyncForEach(_, _, _, _, _, _)
SyncForEach(S, st, opt, ctx, dst, addf) ==
    IF S = {} THEN st
    ELSE LET track == CHOOSE t \in S : TRUE
             k     == TrackIdOf(track)
             seen  == [st EXCEPT !.current = @ \cup {k}]
             added == AddTrackResult([tracks |-> st.tracks, wired |-> st.wired,
                                      leaked |-> st.leaked],
                                     ctx, dst, opt.rawPCM, k, PidOf(k), addf[k])
             next  ==
                 IF ~Eligible(track, opt) THEN st
                 ELSE IF k \in DOMAIN st.tracks \/ track.jitsiTrack # "stream" THEN seen
                 ELSE [seen EXCEPT !.tracks = added.tracks, !.wired = added.wired,
                                   !.leaked = added.leaked]
         IN  SyncForEach(S \ {track}, next, opt, ctx, dst, addf)

\* the forEach over previousTrackIds: st = [tracks, wired, leaked, timers, cleared]
RECURSIVE SyncRemove(_, _, _, _)
SyncRemove(P, st, current, rdf) ==
    IF P = {} THEN st
    ELSE LET k == CHOOSE j \in P : TRUE
         IN  SyncRemove(P \ {k},
                        IF k \notin current THEN RemoveTrackResult(st, k, rdf[k]) ELSE st,
                        current, rdf)

\* faulty variant of SyncSnapshot: the snapshot is never replaced
SyncSnapshotStale(prev, current) == prev

\* the snapshot kept for the next reconciliation
SyncSnapshot(prev, current) == current

\* syncTracksFromStore: st = [tracks, wired, leaked, timers, prev, cleared]
SyncResult(st, hasStore, capturing, L, opt, ctx, dst, addf, rdf) ==
    IF ~hasStore \/ ~capturing THEN st
    ELSE LET a == SyncForEach(L, [tracks |-> st.tracks, wired |-> st.wired,
                                  leaked |-> st.leaked, current |-> {}],
                              opt, ctx, dst, addf)
             r == SyncRemove(st.prev,
                             [tracks |-> a.tracks, wired |-> a.wired, leaked |-> a.leaked,
                              timers |-> st.timers, cleared |-> st.cleared],
                             a.current, rdf)
         IN  [tracks |-> r.tracks, wired |-> r.wired, leaked |-> r.leaked,
              timers |-> r.timers, prev |-> SyncSnapshot(st.prev, a.current),
              cleared |-> r.cleared]

\* keys a reconciliation against L will try to add / remove (the failure
\* choices are drawn for these only)
CurrentTrackIds(L, opt) == { TrackIdOf(t) : t \in { u \in L : Eligible(u, opt) } }

SyncAdds(trk, L, opt) ==
    { TrackIdOf(t) : t \in { u \in L : Eligible(u, opt) /\ u.jitsiTrack = "stream" } }
        \ DOMAIN trk

SyncRemoves(trk, prev, L, opt) == (prev \ CurrentTrackIds(L, opt)) \cap DOMAIN trk

\* failure choices: one per key concerned, "none" elsewhere
AddChoices(afs, S) ==
    { [k \in Keys |-> IF k \in S THEN f[k] ELSE "none"] : f \in [S -> afs] }

DiscChoices(dfs, trk, S) ==
    { [k \in Keys |-> IF k \in S THEN f[k] ELSE "none"] :
        f \in { g \in [S -> dfs] : \A k \in S : g[k] \in DiscFailsOf(trk[k]) } }

(* ------------------------------ lifecycle ----------------------------- *)

\* the fields and browser objects start() and cleanup() work on
Session ==
    [audioContext |-> audioContext, destinationNode |-> destinationNode,
     mediaRecorder |-> mediaRecorder, tracks |-> tracks, isCapturing |-> isCapturing,
     unsubscribe |-> unsubscribe, previousTrackIds |-> previousTrackIds,
     levelInterval |-> levelInterval, listener |-> listener,
     intervalActive |-> intervalActive, timers |-> timers, wired |-> wired,
     leaked |-> leaked, flushPending |-> flushPending, cleared |-> {}]

\* faulty variant of CleanupTimers: cleanup leaves the entries' timers pending
CleanupTimersKept(trk, tm) == tm

\* cleanup: clearTimeout for every entry that holds a timer handle
CleanupTimers(trk, tm) ==
    [k \in Keys |-> IF k \in DOMAIN trk /\ trk[k].vadTimeout THEN NoTimer ELSE tm[k]]

\* faulty variant of CleanupInterval: the sampler's interval is left running
CleanupIntervalKept(handle, active) == active

\* cleanup: clearInterval(this.levelInterval) when the handle is set
CleanupInterval(handle, active) == IF handle THEN FALSE ELSE active

\* cleanup: this.unsubscribe() when the handle is set
CleanupListener(handle, subscribed) == IF handle THEN FALSE ELSE subscribed

\* cleanup: this.tracks.clear()
CleanupTracks(trk) == NoTracks

\* cleanup: this.previousTrackIds.clear()
CleanupSnapshot(prev) == {}

\* cleanup: mediaRecorder.stop() on a recorder that is not inactive makes the
\* recorder deliver its last data in a later dataavailable event
CleanupFlush(rec, pending) == pending \/ rec = "recording"

\* cleanup: the per-entry disconnects run first (failures swallowed), then
\* audioContext.close() releases the whole graph of a context that is set
CleanupGraph(ctx, w) == IF ctx THEN NoWiring ELSE w

CleanupResult(s) ==
    [s EXCEPT
        !.levelInterval = FALSE,
        !.intervalActive = CleanupInterval(s.levelInterval, @),
        !.unsubscribe = FALSE,
        !.listener = CleanupListener(s.unsubscribe, @),
        !.flushPending = CleanupFlush(s.mediaRecorder, @),
        !.mediaRecorder = "null",
        !.timers = CleanupTimers(s.tracks, @),
        !.cleared = @ \cup { k \in DOMAIN s.tracks :
                               s.tracks[k].vadTimeout /\ s.timers[k] # NoTimer
                               /\ CleanupTimers(s.tracks, s.timers)[k] = NoTimer },
        !.tracks = CleanupTracks(@),
        !.previousTrackIds = CleanupSnapshot(@),
        !.wired = CleanupGraph(s.audioContext, @),
        !.leaked = CleanupGraph(s.audioContext, @),
        !.audioContext = FALSE,
        !.destinationNode = FALSE,
        !.isCapturing = FALSE]

\* startLevelMonitoring: setInterval unless a handle is already held
StartLevelMonitoring(s) ==
    IF s.levelInterval THEN s
    ELSE [s EXCEPT !.levelInterval = TRUE, !.intervalActive = TRUE]

\* start(): the state when the step named by `fail` throws, or, for
\* "subscribe" and "none", after the initial reconciliation
StartSetup(cfg, fail, L, addf) ==
    LET s0 == Session
        s1 == [s0 EXCEPT !.audioContext = TRUE, !.destinationNode = TRUE]
        s2 == IF cfg.rawPCM THEN s1
              ELSE [s1 EXCEPT !.mediaRecorder =
                                 IF fail = "recorder" THEN "inactive" ELSE "recording"]
        s3 == [s2 EXCEPT !.isCapturing = TRUE]
        s4 == IF cfg.enableLevels THEN StartLevelMonitoring(s3) ELSE s3
        y  == SyncResult([tracks |-> s4.tracks, wired |-> s4.wired, leaked |-> s4.leaked,
                          timers |-> s4.timers, prev |-> s4.previousTrackIds,
                          cleared |-> s4.cleared],
                         store, TRUE, L, cfg, TRUE, TRUE, addf, NoDiscFail)
        s5 == IF store
              THEN [s4 EXCEPT !.tracks = y.tracks, !.wired = y.wired,
                              !.leaked = y.leaked, !.timers = y.timers,
                              !.previousTrackIds = y.prev, !.cleared = y.cleared]
              ELSE s4
    IN  CASE fail = "context"  -> s0
          [] fail = "mime"     -> s1
          [] fail = "recorder" -> s2
          [] OTHER             -> s5

\* store.subscribe(...) at the end of a successful start()
StartSubscribe(s) ==
    IF store THEN [s EXCEPT !.unsubscribe = TRUE, !.listener = TRUE] ELSE s

\* faulty variant of StartStatus: 'started' is posted before the setup ran
StartStatusEarly(fail) == "started"

\* the capture-status start() posts: 'started' at the end of the try block,
\* 'error' in the catch
StartStatus(fail) == IF fail = "none" THEN "started" ELSE "error"

\* faulty variants of StartReturnsEarly and StopReturnsEarly: the check of
\* isCapturing is missing
StartNeverReturnsEarly == FALSE

StopNeverReturnsEarly == FALSE

\* start() returns at once when a session is active
StartReturnsEarly == isCapturing

\* stop() returns at once when no session is active
StopReturnsEarly == ~isCapturing

Apply(s) ==
    /\ audioContext' = s.audioContext
    /\ destinationNode' = s.destinationNode
    /\ mediaRecorder' = s.mediaRecorder
    /\ tracks' = s.tracks
    /\ isCapturing' = s.isCapturing
    /\ unsubscribe' = s.unsubscribe
    /\ previousTrackIds' = s.previousTrackIds
    /\ levelInterval' = s.levelInterval
    /\ listener' = s.listener
    /\ intervalActive' = s.intervalActive
    /\ timers' = s.timers
    /\ wired' = s.wired
    /\ leaked' = s.leaked
    /\ flushPending' = s.flushPending
    /\ cleared' = s.cleared

\* setStore: the host hands the manager the one store of the page, once
SetStore ==
    /\ ~store
    /\ store' = TRUE
    /\ last' = Last("setStore", "none")
    /\ emitted' = <<>>
    /\ cleared' = {}
    /\ UNCHANGED <<audioContext, destinationNode, mediaRecorder, tracks, isCapturing,
                   isTranscriptionEnabled, options, unsubscribe, previousTrackIds,
                   levelInterval, envVars, afterStop,
                   voiced, transcriptionEnabled>>

Start(cfg, fail, L, addf) ==
    IF StartReturnsEarly
    THEN /\ last' = Last("start", "none")
         /\ emitted' = <<>>
         /\ cleared' = {}
         /\ UNCHANGED <<codeVars, envVars, afterStop, voiced, transcriptionEnabled>>
    ELSE /\ fail \in {"mime", "recorder"} => ~cfg.rawPCM
         /\ fail = "subscribe" => store
         /\ options' = cfg
         /\ LET s == StartSetup(cfg, fail, L, addf)
                r == IF fail = "none" THEN StartSubscribe(s) ELSE CleanupResult(s)
            IN  Apply(r)
         /\ emitted' = <<StatusEvent(StartStatus(fail))>>
         /\ last' = LastSync("start", fail, addf)
         /\ afterStop' = FALSE
         /\ voiced' = NewSession(voiced)
         /\ UNCHANGED <<isTranscriptionEnabled, store, chunkReads, transcriptionEnabled>>

Stop ==
    IF StopReturnsEarly
    THEN /\ last' = Last("stop", "none")
         /\ emitted' = <<>>
         /\ cleared' = {}
         /\ UNCHANGED <<codeVars, envVars, afterStop, voiced, transcriptionEnabled>>
    ELSE /\ LET r == CleanupResult(Session) IN Apply(r)
         /\ emitted' = <<StatusEvent("stopped")>>
         /\ last' = Last("stop", "none")
         /\ afterStop' = TRUE
         /\ voiced' = NewSession(voiced)
         /\ UNCHANGED <<isTranscriptionEnabled, options, store, chunkReads,
                        transcriptionEnabled>>

\* addTrack called by the host
AddTrack(k, fail) ==
    LET r == AddTrackResult([tracks |-> tracks, wired |-> wired, leaked |-> leaked],
                            audioContext, destinationNode, options.rawPCM, k, PidOf(k), fail)
    IN  /\ tracks' = r.tracks
        /\ wired' = r.wired
        /\ leaked' = r.leaked
        /\ last' = Last("addTrack",
                        IF AddTrackSkips(tracks, audioContext, destinationNode, k)
                        THEN "none" ELSE fail)
        /\ emitted' = <<>>
        /\ cleared' = {}
        /\ UNCHANGED <<audioContext, destinationNode, mediaRecorder, isCapturing,
                       isTranscriptionEnabled, options, store, unsubscribe,
                       previousTrackIds, levelInterval, listener,
                       intervalActive, timers, chunkReads, flushPending, afterStop,
                   voiced, transcriptionEnabled>>

\* removeTrack called by the host
RemoveTrack(k, df) ==
    LET r == RemoveTrackResult([tracks |-> tracks, wired |-> wired, leaked |-> leaked,
                                timers |-> timers, cleared |-> {}], k, df)
    IN  /\ k \in DOMAIN tracks => df \in DiscFailsOf(tracks[k])
        /\ k \notin DOMAIN tracks => df = "none"
        /\ tracks' = r.tracks
        /\ wired' = r.wired
        /\ leaked' = r.leaked
        /\ timers' = r.timers
        /\ cleared' = r.cleared
        /\ last' = Last("removeTrack", df)
        /\ emitted' = <<>>
        /\ UNCHANGED <<audioContext, destinationNode, mediaRecorder, isCapturing,
                       isTranscriptionEnabled, options, store, unsubscribe,
                       previousTrackIds, levelInterval, listener,
                       intervalActive, chunkReads, flushPending, afterStop,
                   voiced, transcriptionEnabled>>

(* ---------------------- level sampler and VAD ------------------------- *)

\* the sample counts as speech (level > this.options.vadThreshold)
\* faulty variant: a level equal to the threshold counts as speech
AboveOrAtThreshold(level, th) == level >= th

AboveThreshold(level, th) == level > th

\* faulty variant of HandleVAD: speech does not cancel the pending timer
HandleVADNoCancel(info, t, currentlySpeaking) ==
    IF currentlySpeaking
    THEN [info    |-> [info EXCEPT !.isSpeaking = TRUE],
          timer   |-> t,
          events  |-> IF ~info.isSpeaking
                      THEN <<VoiceEvent(info.participantId, TRUE)>> ELSE <<>>,
          cleared |-> FALSE]
    ELSE IF info.isSpeaking /\ ~info.vadTimeout
         THEN [info |-> [info EXCEPT !.vadTimeout = TRUE], timer |-> VadTicks,
               events |-> <<>>, cleared |-> FALSE]
         ELSE [info |-> info, timer |-> t, events |-> <<>>, cleared |-> FALSE]

\* faulty variant of HandleVAD: every silent sample of a speaking source
\* arms the silence timer anew
HandleVADRearm(info, t, currentlySpeaking) ==
    IF currentlySpeaking
    THEN [info    |-> [info EXCEPT !.vadTimeout = FALSE, !.isSpeaking = TRUE],
          timer   |-> IF info.vadTimeout THEN NoTimer ELSE t,
          events  |-> IF ~info.isSpeaking
                      THEN <<VoiceEvent(info.participantId, TRUE)>> ELSE <<>>,
          cleared |-> info.vadTimeout /\ t # NoTimer]
    ELSE IF info.isSpeaking
         THEN [info |-> [info EXCEPT !.vadTimeout = TRUE], timer |-> VadTicks,
               events |-> <<>>, cleared |-> FALSE]
         ELSE [info |-> info, timer |-> t, events |-> <<>>, cleared |-> FALSE]

\* handleVAD on one entry and its pending timer:
\* [info, timer, events, cleared]
HandleVAD(info, t, currentlySpeaking) ==
    IF currentlySpeaking
    THEN [info    |-> [info EXCEPT !.vadTimeout = FALSE, !.isSpeaking = TRUE],
          timer   |-> IF info.vadTimeout THEN NoTimer ELSE t,
          events  |-> IF ~info.isSpeaking
                      THEN <<VoiceEvent(info.participantId, TRUE)>> ELSE <<>>,
          cleared |-> info.vadTimeout /\ t # NoTimer]
    ELSE IF info.isSpeaking /\ ~info.vadTimeout
         THEN [info |-> [info EXCEPT !.vadTimeout = TRUE], timer |-> VadTicks,
               events |-> <<>>, cleared |-> FALSE]
         ELSE [info |-> info, timer |-> t, events |-> <<>>, cleared |-> FALSE]

\* faulty variant of SampleTrack: VAD runs whatever enableVAD says
SampleTrackAlwaysVAD(info, t, w, vad, th) ==
    HandleVAD([info EXCEPT !.lastLevel = Levels[w]], t, AboveThreshold(Levels[w], th))

\* one entry in one sampler tick: level, lastLevel, then VAD if enabled
SampleTrack(info, t, w, vad, th) ==
    LET level == Levels[w]
        seen  == [info EXCEPT !.lastLevel = level]
    IN  IF vad THEN HandleVAD(seen, t, AboveThreshold(level, th))
        ELSE [info |-> seen, timer |-> t, events |-> <<>>, cleared |-> FALSE]

\* a fixed iteration order over the registry (the Map's insertion order is
\* not modelled: it only orders the events of different sources in one tick)
KeyOrder == <<"local-audio", "remote-A", "remote-B">>

RECURSIVE VoiceEvents(_, _)
VoiceEvents(r, i) ==
    IF i > Len(KeyOrder) THEN <<>>
    ELSE (IF KeyOrder[i] \in DOMAIN r THEN r[KeyOrder[i]].events ELSE <<>>)
         \o VoiceEvents(r, i + 1)

\* the levels object sent at the end of a tick, keyed by participantId
LevelsKeys(trk) == { trk[k].participantId : k \in DOMAIN trk }

\* faulty variant: the levels object is keyed by the registry's key
TickLevelsBySourceKey(trk) == [k \in DOMAIN trk |-> trk[k].lastLevel]

\* levels[trackInfo.participantId] = level, for the registry trk as the
\* tick leaves it
TickLevels(trk) ==
    [p \in LevelsKeys(trk) |->
        trk[CHOOSE k \in DOMAIN trk : trk[k].participantId = p].lastLevel]

\* the time of one sampler period passing for the pending timeouts
Aged(tm) == [k \in Keys |-> IF tm[k] > 0 THEN tm[k] - 1 ELSE tm[k]]

\* the setInterval callback of startLevelMonitoring
Tick(ws) ==
    /\ intervalActive
    /\ \A k \in Keys : timers[k] # 0
    /\ last' = Last("tick", "none")
    /\ IF ~isCapturing
       THEN /\ emitted' = <<>>
            /\ cleared' = {}
            /\ UNCHANGED <<tracks, timers>>
       ELSE LET r == [k \in DOMAIN tracks |->
                        SampleTrack(tracks[k], Aged(timers)[k], ws[k],
                                    options.enableVAD, options.vadThreshold)]
                new == [k \in DOMAIN tracks |-> r[k].info]
            IN  /\ tracks' = new
                /\ timers' = [k \in Keys |->
                                IF k \in DOMAIN tracks THEN r[k].timer ELSE Aged(timers)[k]]
                /\ cleared' = { k \in DOMAIN tracks : r[k].cleared }
                /\ emitted' = VoiceEvents(r, 1) \o
                              (IF LevelsKeys(tracks) # {}
                               THEN <<LevelsEvent(TickLevels(new))>> ELSE <<>>)
    /\ voiced' = Voiced(voiced, emitted', 1)
    /\ UNCHANGED <<audioContext, destinationNode, mediaRecorder, isCapturing,
                   isTranscriptionEnabled, options, store, unsubscribe, previousTrackIds,
                   levelInterval, listener, intervalActive, wired, leaked,
                   chunkReads, flushPending, afterStop, transcriptionEnabled>>

\* the setTimeout callback armed by handleVAD.  A timer armed in one tick is
\* due VadTicks periods later, just before or just after the tick of that time.
TimerFire(k) ==
    /\ timers[k] \in {0, 1}
    /\ timers' = [timers EXCEPT ![k] = NoTimer]
    /\ tracks' = [j \in DOMAIN tracks |->
                    IF j = k THEN [tracks[j] EXCEPT !.isSpeaking = FALSE,
                                                    !.vadTimeout = FALSE]
                    ELSE tracks[j]]
    /\ emitted' = <<VoiceEvent(PidOf(k), FALSE)>>
    /\ last' = Last("timer", "none")
    /\ cleared' = {}
    /\ voiced' = Voiced(voiced, emitted', 1)
    /\ UNCHANGED <<audioContext, destinationNode, mediaRecorder, isCapturing,
                   isTranscriptionEnabled, options, store, unsubscribe, previousTrackIds,
                   levelInterval, listener, intervalActive, wired, leaked,
                   chunkReads, flushPending, afterStop, transcriptionEnabled>>

\* faulty variant of AudioProcess: the frame is posted whatever the
\* transcription flag says
AudioProcessUngated(k) ==
    /\ "sp_out" \in wired[k] \cup leaked[k]
    /\ emitted' = IF isCapturing THEN <<PcmEvent(PidOf(k))>> ELSE <<>>
    /\ last' = Last("audioprocess", "none")
    /\ cleared' = {}
    /\ UNCHANGED <<codeVars, envVars, afterStop, voiced, transcriptionEnabled>>

\* scriptProcessor.onaudioprocess of source k: the node runs while it is
\* connected to the context's output
AudioProcess(k) ==
    /\ "sp_out" \in wired[k] \cup leaked[k]
    /\ emitted' = IF isCapturing /\ isTranscriptionEnabled
                  THEN <<PcmEvent(PidOf(k))>> ELSE <<>>
    /\ last' = Last("audioprocess", "none")
    /\ cleared' = {}
    /\ UNCHANGED <<codeVars, envVars, afterStop, voiced, transcriptionEnabled>>

(* ------------------------------ encoder ------------------------------- *)

\* mediaRecorder.ondataavailable: a chunk of size > 0 starts an asynchronous read
OnDataAvailable(nonEmpty) ==
    /\ nonEmpty => chunkReads < MaxInflight
    /\ chunkReads' = IF nonEmpty THEN chunkReads + 1 ELSE chunkReads
    /\ emitted' = <<>>
    /\ cleared' = {}

\* the timeslice of a recording recorder elapsed
DataAvailable(nonEmpty) ==
    /\ mediaRecorder = "recording"
    /\ OnDataAvailable(nonEmpty)
    /\ last' = Last("dataavailable", "none")
    /\ UNCHANGED <<codeVars, listener, intervalActive, timers, wired, leaked,
                   flushPending, afterStop,
                   voiced, transcriptionEnabled>>

\* the last dataavailable of a recorder that was stopped
FlushData(nonEmpty) ==
    /\ flushPending
    /\ flushPending' = FALSE
    /\ OnDataAvailable(nonEmpty)
    /\ last' = Last("flush", "none")
    /\ UNCHANGED <<codeVars, listener, intervalActive, timers, wired, leaked,
                   afterStop,
                   voiced, transcriptionEnabled>>

\* the continuation of ondataavailable after await arrayBuffer()
ChunkRead ==
    /\ chunkReads > 0
    /\ chunkReads' = chunkReads - 1
    /\ emitted' = <<ChunkEvent>>
    /\ last' = Last("chunk", "none")
    /\ cleared' = {}
    /\ UNCHANGED <<codeVars, listener, intervalActive, timers, wired, leaked,
                   flushPending, afterStop,
                   voiced, transcriptionEnabled>>

\* faulty variant of RecorderError: the handler tears the session down
RecorderErrorStops ==
    /\ mediaRecorder = "recording"
    /\ LET r == CleanupResult(Session) IN Apply(r)
    /\ emitted' = <<StatusEvent("error")>>
    /\ last' = Last("recorderError", "none")
    /\ UNCHANGED <<isTranscriptionEnabled, options, store, chunkReads, afterStop,
                   voiced, transcriptionEnabled>>

\* mediaRecorder.onerror: the browser reports the error and stops the recorder
RecorderError ==
    /\ mediaRecorder = "recording"
    /\ mediaRecorder' = "inactive"
    /\ flushPending' = TRUE
    /\ emitted' = <<StatusEvent("error")>>
    /\ last' = Last("recorderError", "none")
    /\ cleared' = {}
    /\ UNCHANGED <<audioContext, destinationNode, tracks, isCapturing,
                   isTranscriptionEnabled, options, store, unsubscribe, previousTrackIds,
                   levelInterval, listener, intervalActive, timers, wired,
                   leaked, chunkReads, afterStop,
                   voiced, transcriptionEnabled>>

(* ---------------------------- transcription --------------------------- *)

\* faulty variant of SetTranscription: the check of isCapturing is missing
SetTranscriptionAlways(cap, flag, b) ==
    [flag |-> b, events |-> <<TranscriptionEvent(b)>>]

\* enableTranscription / disableTranscription: [flag, events]
SetTranscription(cap, flag, b) ==
    IF ~cap THEN [flag |-> flag, events |-> <<>>]
    ELSE [flag |-> b, events |-> <<TranscriptionEvent(b)>>]

Transcription(op, b) ==
    LET r == SetTranscription(isCapturing, isTranscriptionEnabled, b)
    IN  /\ isTranscriptionEnabled' = r.flag
        /\ emitted' = r.events
        /\ last' = Last(op, "none")
        /\ cleared' = {}
        /\ UNCHANGED <<audioContext, destinationNode, mediaRecorder, tracks, isCapturing,
                       options, store, unsubscribe, previousTrackIds, levelInterval,
                       envVars, afterStop,
                   voiced, transcriptionEnabled>>

EnableTranscription == Transcription("enableTranscription", TRUE)

DisableTranscription == Transcription("disableTranscription", FALSE)

ToggleTranscription == Transcription("toggleTranscription", ~isTranscriptionEnabled)

(* ---------------------------- external store -------------------------- *)

\* the store changes to report L and calls the manager's listener
StoreDispatch(L, addf, rdf) ==
    LET y == SyncResult([tracks |-> tracks, wired |-> wired, leaked |-> leaked,
                         timers |-> timers, prev |-> previousTrackIds, cleared |-> {}],
                        store, isCapturing, L, options, audioContext, destinationNode,
                        addf, rdf)
    IN  /\ listener
        /\ tracks' = y.tracks
        /\ wired' = y.wired
        /\ leaked' = y.leaked
        /\ timers' = y.timers
        /\ previousTrackIds' = y.prev
        /\ cleared' = y.cleared
        /\ last' = LastSync("sync", IF addf = NoAddFail THEN "none" ELSE "add", addf)
        /\ emitted' = <<>>
        /\ UNCHANGED <<audioContext, destinationNode, mediaRecorder, isCapturing,
                       isTranscriptionEnabled, options, store, unsubscribe, levelInterval,
                       listener, intervalActive, chunkReads, flushPending, afterStop,
                   voiced, transcriptionEnabled>>

(* ------------------------- redux action creators ---------------------- *)

\* the reducer of 'features/audio-capture' on SET_TRANSCRIPTION_ENABLED
Reducer(state, enabled) == enabled

\* dispatch(setTranscriptionEnabled(enabled)): the action creator calls
\* enableTranscription / disableTranscription on the manager, the reducer
\* stores action.enabled, and the store calls its listeners, the manager's
\* among them when it is subscribed, with the store reporting the tracks L.
\* (APP.API.notifyTranscriptionStatusChanged belongs to the external API and
\* touches none of this state.)
DispatchSetTranscriptionEnabled(enabled, L) ==
    LET r == SetTranscription(isCapturing, isTranscriptionEnabled, enabled)
        st == [tracks |-> tracks, wired |-> wired, leaked |-> leaked,
               timers |-> timers, prev |-> previousTrackIds, cleared |-> {}]
        y == IF listener
             THEN SyncResult(st, store, isCapturing, L, options, audioContext,
                             destinationNode, NoAddFail, NoDiscFail)
             ELSE st
    IN  /\ isTranscriptionEnabled' = r.flag
        /\ transcriptionEnabled' = Reducer(transcriptionEnabled, enabled)
        /\ tracks' = y.tracks
        /\ wired' = y.wired
        /\ leaked' = y.leaked
        /\ timers' = y.timers
        /\ previousTrackIds' = y.prev
        /\ cleared' = y.cleared
        /\ emitted' = r.events
        /\ last' = Last("setTranscriptionEnabled", "none")
        /\ UNCHANGED <<audioContext, destinationNode, mediaRecorder, isCapturing,
                       options, store, unsubscribe, levelInterval, listener,
                       intervalActive, chunkReads, flushPending, afterStop, voiced>>

\* dispatch(toggleTranscription()): the thunk reads the reducer's slot and
\* dispatches setTranscriptionEnabled(!currentEnabled)
DispatchToggleTranscription(L) ==
    DispatchSetTranscriptionEnabled(~transcriptionEnabled, L)

(* ---------------------------- specifications -------------------------- *)

Leaks(lk) == Cardinality({ k \in Keys : lk[k] # {} })

\* the calls of the host and the callbacks of the store and the raw-frame
\* taps, with the inputs and the environment's choices drawn from: the
\* configurations cfgs, the reported tracks U, the setup failures afs of
\* addTrack, the disconnect failures dfs.  A start() that returns early
\* consults no environment, and one that fails before the initial
\* reconciliation does not read the store.
Calls(cfgs, U, afs, dfs) ==
    \/ SetStore
    \/ \E cfg \in cfgs, fail \in StartFails, L \in TrackLists(U) :
         \E addf \in AddChoices(afs, IF store /\ ~isCapturing
                                     THEN SyncAdds(NoTracks, L, cfg) ELSE {}) :
            /\ isCapturing => fail = "none"
            /\ isCapturing \/ fail \in {"context", "mime", "recorder"} => L = {}
            /\ Start(cfg, fail, L, addf)
            /\ Cardinality(DOMAIN tracks') <= MaxTracks
            /\ Leaks(leaked') <= MaxLeaks
    \/ Stop
    \/ \E k \in Keys, fail \in afs :
         /\ Cardinality(DOMAIN tracks) < MaxTracks
         /\ AddTrack(k, fail)
         /\ Leaks(leaked') <= MaxLeaks
    \/ \E k \in Keys, df \in dfs :
         /\ RemoveTrack(k, df)
         /\ Leaks(leaked') <= MaxLeaks
    \/ \E L \in TrackLists(U) :
         \E addf \in AddChoices(afs, IF store /\ isCapturing
                                     THEN SyncAdds(tracks, L, options) ELSE {}),
            rdf \in DiscChoices(dfs, tracks,
                                IF store /\ isCapturing
                                THEN SyncRemoves(tracks, previousTrackIds, L, options)
                                ELSE {}) :
            /\ StoreDispatch(L, addf, rdf)
            /\ Cardinality(DOMAIN tracks') <= MaxTracks
            /\ Leaks(leaked') <= MaxLeaks
    \/ \E k \in Keys : AudioProcess(k)

\* the host switching transcription
TranscriptionCalls ==
    \/ EnableTranscription
    \/ DisableTranscription
    \/ ToggleTranscription

\* the sampler's tick, reading one of the windows wins for every source
Sampler(wins) == \E ws \in [DOMAIN tracks -> wins] : Tick(ws)

\* the VAD silence timers
Timers == \E k \in Keys : TimerFire(k)

\* the callbacks of the encoder
EncoderCalls ==
    \/ \E b \in BOOLEAN : DataAvailable(b)
    \/ \E b \in BOOLEAN : FlushData(b)
    \/ ChunkRead
    \/ RecorderError

\* sessions with the encoder delivering data; sources stay silent, no source
\* fails to set up or tear down
Next ==
    \/ Calls(Configs, TrackUniverse, {"none"}, {"none"})
    \/ TranscriptionCalls
    \/ Sampler({Silence})
    \/ EncoderCalls

Spec == Init /\ [][Next]_vars

\* raw-PCM sessions whose sources speak and fall silent; transcription stays on
NextVad ==
    \/ Calls(RawConfigs, TrackUniverse, {"none"}, {"none"})
    \/ Sampler(Windows)
    \/ Timers

SpecVad == Init /\ [][NextVad]_vars

\* raw-PCM sessions in which setting up or tearing down a source may fail;
\* sources stay silent, transcription stays on
NextFault ==
    \/ Calls({RawConfig}, StreamTracks, AddFails, DiscFails)
    \/ Sampler({Silence})

SpecFault == Init /\ [][NextFault]_vars

\* raw-PCM sessions whose sources speak and fall silent while the host
\* switches transcription
NextGate ==
    \/ Calls({RawConfig}, StreamTracks, {"none"}, {"none"})
    \/ TranscriptionCalls
    \/ Sampler(Windows)
    \/ Timers

SpecGate == Init /\ [][NextGate]_vars

\* raw-PCM sessions without VAD whose sources are silent, speak at half and
\* at full scale, or overdrive the level
NextLevel ==
    \/ Calls({LevelsConfig}, StreamTracks, {"none"}, {"none"})
    \/ Sampler(LoudWindows)

SpecLevel == Init /\ [][NextLevel]_vars

\* raw-PCM sessions whose threshold equals the level of the full-scale sine;
\* sources read that sine or the louder square wave
NextEdge ==
    \/ Calls({EdgeConfig}, StreamTracks, {"none"}, {"none"})
    \/ Sampler({Sine, Square})
    \/ Timers

SpecEdge == Init /\ [][NextEdge]_vars

\* raw-PCM sessions whose sources speak and fall silent, with the
\* voice-activity messages of every participant observed
NextVoice ==
    \/ Calls({RawConfig}, StreamTracks, {"none"}, {"none"})
    \/ Sampler(Windows)
    \/ Timers

SpecVoice == InitVoice /\ [][NextVoice]_vars

\* raw-PCM sessions with the sampler and VAD, with the sampler only, and
\* without the sampler; sources speak and fall silent
NextSampler ==
    \/ Calls({RawConfig, LevelsConfig, NoLevelsConfig}, StreamTracks, {"none"}, {"none"})
    \/ Sampler(Windows)
    \/ Timers

SpecSampler == Init /\ [][NextSampler]_vars

\* the page dispatching the transcription actions while the store reports L
ReduxCalls(U) ==
    \/ \E b \in BOOLEAN, L \in TrackLists(U) :
          /\ DispatchSetTranscriptionEnabled(b, L)
          /\ Cardinality(DOMAIN tracks') <= MaxTracks
    \/ \E L \in TrackLists(U) :
          /\ DispatchToggleTranscription(L)
          /\ Cardinality(DOMAIN tracks') <= MaxTracks

\* raw-PCM sessions whose transcription is switched by the page's actions only
NextRedux ==
    \/ Calls({RawConfig}, StreamTracks, {"none"}, {"none"})
    \/ ReduxCalls(StreamTracks)

SpecRedux == Init /\ [][NextRedux]_vars

(* ------------------------------- claims ------------------------------- *)

\* C1: once stop() has returned on a capturing session, and until the next
\* start(), no step of any callback posts an event to the host.  A state
\* entered after that stop() by a step other than stop() carries no event.
\* Refuted under Spec: the chunk read still in flight, and the last chunk the
\* stopped recorder delivers, are posted as audio-chunk events.
C1_NoEventAfterStop == afterStop /\ last.op # "stop" => emitted = <<>>

\* C2: whenever isCapturing is false the registry and the snapshot of the
\* previous reconciliation are empty, the sampler's interval is not live and
\* no silence timer is pending.
C2_IdleIsEmpty ==
    ~isCapturing =>
        /\ tracks = NoTracks
        /\ previousTrackIds = {}
        /\ ~levelInterval
        /\ ~intervalActive
        /\ timers = NoTimers

\* C2 witness: stop() has just ended a session, cancelling a source's
\* pending silence timer
C2_StopCancelledTimer ==
    /\ ~isCapturing
    /\ last.op = "stop"
    /\ afterStop
    /\ cleared # {}

\* C3: the keys of the registry are exactly the sources with a connection in
\* the audio graph, also when addTrack's setup or a disconnect call throws.
\* Refuted under SpecFault: a setup that throws after source->analyser leaves
\* the source connected without an entry, and a disconnect() that throws in
\* removeTrack leaves the connections of an entry that is deleted.
C3_RegistryMatchesTaps ==
    \A k \in Keys : (k \in DOMAIN tracks) <=> (wired[k] \cup leaked[k] # {})

\* a step is the store's listener reconciling against L while capturing, with
\* every addTrack and every disconnect succeeding
C4_SyncStep(L) ==
    /\ store
    /\ isCapturing
    /\ StoreDispatch(L, NoAddFail, NoDiscFail)

\* sourceKeys of the tracks of L of audio type whose locality opt allows
C4_ReportedKeys(L, opt) ==
    { TrackIdOf(t) : t \in { u \in L : /\ u.mediaType = "audio"
                                       /\ IF u.local THEN opt.includeLocal
                                                     ELSE opt.includeRemote } }

\* those of them that come with a track object, and with a stream
C4_TrackKeys(L, opt) ==
    { TrackIdOf(t) : t \in { u \in L : /\ u.mediaType = "audio"
                                       /\ u.jitsiTrack # "none"
                                       /\ IF u.local THEN opt.includeLocal
                                                     ELSE opt.includeRemote } }

C4_StreamKeys(L, opt) ==
    { TrackIdOf(t) : t \in { u \in L : /\ u.mediaType = "audio"
                                       /\ u.jitsiTrack = "stream"
                                       /\ IF u.local THEN opt.includeLocal
                                                     ELSE opt.includeRemote } }

\* C4 as stated: after a reconciliation against L in which every addTrack
\* succeeds, the registry's keys are exactly the sourceKeys of the tracks of L
\* of audio type and allowed locality.  Refuted under SpecVad: a reported
\* track without a stream is not registered, and a key the host registered by
\* addTrack, never reported, stays.
C4_RegistryIsReported ==
    [][last'.op = "sync" =>
          \A L \in TrackLists(TrackUniverse) :
              C4_SyncStep(L) => DOMAIN tracks' = C4_ReportedKeys(L, options)]_vars

\* C4 amended: a reconciliation against L in which every addTrack succeeds
\* removes the keys of the previous snapshot that no track object of L
\* (audio, allowed locality) maps to, registers the keys of those tracks that
\* carry a stream, leaves every other key as it was, and keeps the keys of
\* the track objects as the new snapshot.  The registry's keys are exactly
\* those keys when the registry held only keys of the previous snapshot and
\* every such key is registered or comes with a stream.  An entry registered
\* before and after is the same entry: lastLevel, isSpeaking, the pending
\* silence timer and the connections are as they were.
C4_SyncIsDiff ==
    [][last'.op = "sync" =>
          \A L \in TrackLists(TrackUniverse) :
              C4_SyncStep(L) =>
                  LET cur == C4_TrackKeys(L, options)
                      str == C4_StreamKeys(L, options)
                      old == DOMAIN tracks
                  IN  /\ previousTrackIds' = cur
                      /\ DOMAIN tracks' = (old \ (previousTrackIds \ cur)) \cup str
                      /\ (old \subseteq previousTrackIds /\ cur \subseteq old \cup str)
                            => DOMAIN tracks' = cur
                      /\ \A k \in old \cap DOMAIN tracks' :
                            /\ tracks'[k] = tracks[k]
                            /\ timers'[k] = timers[k]
                            /\ wired'[k] = wired[k]]_vars

\* C4 witness: a reconciliation has just replaced the local source, whose
\* pending silence timer it cancelled, by remote-B, and remote-A, speaking
\* with a silence timer pending, is still registered
C4_LocalReplacedByRemoteB ==
    /\ last.op = "sync"
    /\ isCapturing
    /\ cleared = {LocalKey}
    /\ DOMAIN tracks = {"remote-A", "remote-B"}
    /\ previousTrackIds = {"remote-A", "remote-B"}
    /\ tracks["remote-A"].isSpeaking
    /\ tracks["remote-A"].vadTimeout
    /\ timers["remote-A"] > 0
    /\ ~tracks["remote-B"].isSpeaking

\* a step is the host's addTrack(k, ...) with its setup succeeding
C5_AddStep(k) == last'.op = "addTrack" /\ AddTrack(k, "none")

\* a step is the host's removeTrack(k) with its disconnects succeeding
C5_RemoveStep(k) == last'.op = "removeTrack" /\ RemoveTrack(k, "none")

\* C5: addTrack(k) whose setup succeeds, on an active graph and a key that is
\* not registered, adds exactly k with a fresh entry; on a registered key, or
\* without a graph, it changes nothing: the entry, its connections and its
\* VAD state are as before.  removeTrack(k) removes exactly k.  No other
\* entry changes in either.  So over any sequence of the two the registry's
\* keys are the keys added and not removed since, one entry per key.
C5_AddRemoveExact ==
    [][\A k \in Keys :
          /\ C5_AddStep(k) =>
                IF audioContext /\ destinationNode /\ k \notin DOMAIN tracks
                THEN /\ DOMAIN tracks' = DOMAIN tracks \cup {k}
                     /\ tracks'[k] = TrackInfo(PidOf(k), options.rawPCM)
                     /\ wired'[k] # {}
                     /\ \A j \in DOMAIN tracks :
                           tracks'[j] = tracks[j] /\ wired'[j] = wired[j]
                     /\ UNCHANGED <<timers, leaked, previousTrackIds>>
                ELSE UNCHANGED <<codeVars, envVars>>
          /\ C5_RemoveStep(k) =>
                /\ DOMAIN tracks' = DOMAIN tracks \ {k}
                /\ wired'[k] = {}
                /\ timers'[k] = NoTimer
                /\ \A j \in DOMAIN tracks' :
                      /\ tracks'[j] = tracks[j]
                      /\ wired'[j] = wired[j]
                      /\ timers'[j] = timers[j]
                /\ UNCHANGED <<leaked, previousTrackIds>>]_vars

\* C5 witness: addTrack has just been called on the key of the only
\* registered source, which is speaking with a silence timer pending
C5_AddOnRegisteredKey ==
    /\ last.op = "addTrack"
    /\ isCapturing
    /\ \E k \in Keys :
          /\ DOMAIN tracks = {k}
          /\ tracks[k].isSpeaking
          /\ tracks[k].vadTimeout
          /\ timers[k] > 0

\* C6: start() on a capturing session posts no event and changes neither a
\* field of the manager (options, registry, snapshot, graph, recorder,
\* transcription flag, interval and subscription handles) nor a browser
\* object it drives: no second interval, no second subscription.
C6_StartWhileCapturing ==
    [][isCapturing /\ last'.op = "start" =>
          emitted' = <<>> /\ UNCHANGED <<codeVars, envVars>>]_vars

\* C6 witness: start() has just returned early on a default session that
\* records, samples, is subscribed to the store and has a source registered
C6_SecondStart ==
    /\ last.op = "start"
    /\ emitted = <<>>
    /\ isCapturing
    /\ options = DefaultConfig
    /\ mediaRecorder = "recording"
    /\ intervalActive
    /\ listener
    /\ tracks # NoTracks

\* C7: stop() on a manager that is not capturing posts no event and changes
\* nothing; stop() on a capturing one posts exactly one 'stopped' status and
\* leaves it not capturing.  So stop();stop() posts one 'stopped' and ends in
\* the state of a single stop().
C7_StopIdempotent ==
    [][last'.op = "stop" =>
          IF isCapturing
          THEN emitted' = <<StatusEvent("stopped")>> /\ ~isCapturing'
          ELSE emitted' = <<>> /\ UNCHANGED <<codeVars, envVars>>]_vars

\* C7 witness: stop() has just been called again after a stop() that ended a
\* session
C7_SecondStop ==
    /\ last.op = "stop"
    /\ afterStop
    /\ emitted = <<>>

\* C8: a start() that throws during setup (last.fail names the step that
\* threw and whose error start() rethrows) posts exactly one 'error' status
\* and no 'started', and leaves the manager not capturing, with an empty
\* registry and snapshot, no graph, recorder, interval or subscription; a
\* later start() then does not return early.
C8_FailedStartRollsBack ==
    [][last'.op = "start" /\ last'.fail # "none" =>
          /\ emitted' = <<StatusEvent("error")>>
          /\ ~isCapturing'
          /\ tracks' = NoTracks
          /\ previousTrackIds' = {}
          /\ ~audioContext' /\ ~destinationNode'
          /\ mediaRecorder' = "null"
          /\ ~levelInterval' /\ ~intervalActive'
          /\ ~unsubscribe' /\ ~listener'
          /\ wired' = NoWiring /\ leaked' = NoWiring
          /\ timers' = NoTimers
          /\ ~StartReturnsEarly']_vars

\* C8 witness: start() has just failed at store.subscribe, after isCapturing
\* was set and the initial reconciliation ran
C8_SubscribeFailed ==
    /\ last = Last("start", "subscribe")
    /\ emitted = <<StatusEvent("error")>>
    /\ ~isCapturing

\* C9: after stop() has ended a session, and until the next start(), the
\* fields of the session are back at their initial values: isCapturing,
\* isTranscriptionEnabled, registry, snapshot, graph and recorder handles,
\* timers.  Refuted under Spec: cleanup() does not reset
\* isTranscriptionEnabled, so a flag switched off in one session is off in
\* the next.
C9_StopResetsSession ==
    afterStop =>
        /\ ~isCapturing
        /\ isTranscriptionEnabled
        /\ tracks = NoTracks
        /\ previousTrackIds = {}
        /\ ~audioContext /\ ~destinationNode
        /\ mediaRecorder = "null"
        /\ ~levelInterval /\ ~intervalActive
        /\ ~unsubscribe /\ ~listener
        /\ timers = NoTimers

\* no voice-activity event about the source k is in the events es
C10_NoVoiceEvent(es, k) ==
    \A i \in 1..Len(es) :
        ~(es[i].type = "voice-activity" /\ es[i].who = {PidOf(k)})

\* C10: in a sampler tick with VAD on, a sample above the threshold read for
\* a source that is Speaking leaves it Speaking with no silence timer (a
\* pending one is cancelled, so it never fires) and posts no voice-activity
\* event about it; read for a source that is not Speaking it posts
\* speaking:true once.  A speaking:false event is posted by no tick, only by
\* a silence timer that was not cancelled.
C10_ReboundCancelsTimer ==
    [][last'.op = "tick" /\ isCapturing /\ options.enableVAD =>
          /\ \A k \in DOMAIN tracks :
                tracks'[k].lastLevel > VadThreshold =>
                    /\ tracks'[k].isSpeaking
                    /\ ~tracks'[k].vadTimeout
                    /\ timers'[k] = NoTimer
                    /\ tracks[k].vadTimeout => k \in cleared'
                    /\ IF tracks[k].isSpeaking
                       THEN C10_NoVoiceEvent(emitted', k)
                       ELSE \E i \in 1..Len(emitted') :
                              /\ emitted'[i] = VoiceEvent(PidOf(k), TRUE)
                              /\ \A j \in 1..Len(emitted') :
                                    emitted'[j] = emitted'[i] => j = i
          /\ \A i \in 1..Len(emitted') :
                emitted'[i].type = "voice-activity" => emitted'[i].flag]_vars

\* C10 witness: a tick has just read a sample above the threshold for a
\* Speaking source whose silence timer was pending, and cancelled the timer
C10_Rebound ==
    /\ last.op = "tick"
    /\ \E k \in cleared :
          /\ k \in DOMAIN tracks
          /\ tracks[k].lastLevel > VadThreshold
          /\ tracks[k].isSpeaking
          /\ ~tracks[k].vadTimeout
          /\ C10_NoVoiceEvent(emitted, k)

\* the sources whose silence timer a step fired
C11_Fired == { k \in Keys : timers[k] \in {0, 1} /\ timers'[k] = NoTimer }

\* C11: with VAD on, a sample at or below the threshold read for a Speaking
\* source arms the silence timer (VadTicks sampler periods, 500 ms) if none
\* is pending and lets a pending one run on otherwise, posting no
\* voice-activity event about the source; read for a source that is not
\* Speaking it arms nothing and posts nothing about it.  A timer that is
\* not cancelled fires between the tick VadTicks - 1 periods after the one
\* that armed it and the next: 500 ms after the first silent sample, which is
\* within one period of 500 ms after the last sample above the threshold.
\* Firing posts exactly one speaking:false about the source, which is then
\* not Speaking and holds no timer.
C11_SilenceTimerFiresOnce ==
    [][
        /\ last'.op = "tick" /\ isCapturing /\ options.enableVAD =>
            \A k \in DOMAIN tracks :
                tracks'[k].lastLevel <= VadThreshold =>
                    /\ C10_NoVoiceEvent(emitted', k)
                    /\ tracks'[k].isSpeaking = tracks[k].isSpeaking
                    /\ tracks'[k].vadTimeout = tracks[k].isSpeaking
                    /\ timers'[k] =
                          IF ~tracks[k].isSpeaking THEN NoTimer
                          ELSE IF tracks[k].vadTimeout THEN timers[k] - 1
                          ELSE VadTicks
                    /\ timers'[k] >= 0 \/ timers'[k] = NoTimer
        /\ last'.op = "timer" =>
            \E k \in DOMAIN tracks :
                /\ C11_Fired = {k}
                /\ tracks[k].isSpeaking /\ tracks[k].vadTimeout
                /\ emitted' = <<VoiceEvent(tracks[k].participantId, FALSE)>>
                /\ ~tracks'[k].isSpeaking /\ ~tracks'[k].vadTimeout
                /\ \A j \in DOMAIN tracks \ {k} :
                      tracks'[j] = tracks[j] /\ timers'[j] = timers[j]]_vars

\* C11 witness: the silence timer of a source that read silent samples has
\* just fired, posting speaking:false, and the source is registered, silent
\* and without a timer
C11_TimerFired ==
    /\ last.op = "timer"
    /\ isCapturing
    /\ emitted = <<VoiceEvent("A", FALSE)>>
    /\ "remote-A" \in DOMAIN tracks
    /\ ~tracks["remote-A"].isSpeaking
    /\ ~tracks["remote-A"].vadTimeout
    /\ tracks["remote-A"].lastLevel = 0
    /\ timers["remote-A"] = NoTimer

\* the registered sources, in the sampler's order, for which a tick that
\* leaves the registry trk2 reads speech while they are not Speaking
C12_Starters(trk, trk2) ==
    SelectSeq(KeyOrder,
              LAMBDA k : /\ k \in DOMAIN trk
                         /\ trk2[k].lastLevel > VadThreshold
                         /\ ~trk[k].isSpeaking)

\* the events of a tick as the registry, the samples read and the options
\* determine them: speaking:true for the sources that start to speak (VAD
\* on), then the levels of all registered sources
C12_TickEvents(trk, trk2, opt) ==
    LET ks == IF opt.enableVAD THEN C12_Starters(trk, trk2) ELSE <<>>
    IN  [i \in 1..Len(ks) |-> VoiceEvent(trk[ks[i]].participantId, TRUE)]
        \o (IF DOMAIN trk # {}
            THEN <<LevelsEvent([p \in { trk[k].participantId : k \in DOMAIN trk } |->
                                  trk2[CHOOSE k \in DOMAIN trk :
                                          trk[k].participantId = p].lastLevel])>>
            ELSE <<>>)

C12_NoPcm(es) == \A i \in 1..Len(es) : es[i].type # "pcm-frame"

C12_ChunksUngated ==
    [][last'.op = "chunk" => emitted' = <<ChunkEvent>>]_vars

\* the flag a transcription call asks for
C13_Asked(op, flag) ==
    CASE op = "enableTranscription"  -> TRUE
      [] op = "disableTranscription" -> FALSE
      [] OTHER                       -> ~flag

\* C13: enableTranscription(), disableTranscription() and
\* toggleTranscription() on a manager that is not capturing leave
\* isTranscriptionEnabled as it was and post nothing; on a capturing one
\* they set it to true, to false and to its negation, and post one
\* transcription-status event carrying the new value.  The value
\* toggleTranscription() returns is the flag after the call.
C13_TranscriptionCalls ==
    [][last'.op \in {"enableTranscription", "disableTranscription",
                     "toggleTranscription"} =>
          IF isCapturing
          THEN /\ isTranscriptionEnabled' = C13_Asked(last'.op, isTranscriptionEnabled)
               /\ emitted' = <<TranscriptionEvent(isTranscriptionEnabled')>>
          ELSE /\ UNCHANGED isTranscriptionEnabled
               /\ emitted' = <<>>]_vars

\* C13 witness: disableTranscription() has just been called on a manager
\* that is not capturing, and the flag is still on
C13_DisableWhileIdle ==
    /\ last.op = "disableTranscription"
    /\ ~isCapturing
    /\ isTranscriptionEnabled
    /\ emitted = <<>>

\* keys reported by L only by audio tracks of allowed locality that carry no
\* stream
C14_StreamlessKeys(L, opt) == C4_ReportedKeys(L, opt) \ C4_StreamKeys(L, opt)

\* C14: after a reconciliation against L, a key that L reports only without
\* a stream is not in the snapshot and not in the registry: it is not added,
\* and if an earlier reconciliation registered it, it is removed.  Refuted
\* under SpecVad: a track object without a stream is counted in the current
\* key set before the stream is looked at, so its registered source stays.
C14_StreamlessIsAbsent ==
    [][last'.op = "sync" =>
          \A L \in TrackLists(TrackUniverse) :
              C4_SyncStep(L) =>
                  \A k \in C14_StreamlessKeys(L, options) :
                      (k \notin DOMAIN tracks \/ k \in previousTrackIds) =>
                          /\ k \notin DOMAIN tracks'
                          /\ k \notin previousTrackIds']_vars

\* the setup failures that make addTrack throw for exactly the keys in F
C15_AddFailures(F) ==
    { f \in AddChoices(AddFails, F) : \A k \in F : f[k] # "none" }

\* a step is the store's listener reconciling against L, with any failures
C15_SyncStep(L) ==
    /\ store
    /\ isCapturing
    /\ last'.op = "sync"
    /\ previousTrackIds' = C4_TrackKeys(L, options)
    /\ \E addf \in C15_AddFailures(last'.failed) :
          \E rdf \in DiscChoices(DiscFails, tracks,
                                 (previousTrackIds \ previousTrackIds') \cap DOMAIN tracks) :
              StoreDispatch(L, addf, rdf)

\* a step is a start() that succeeds, its initial reconciliation against L
C15_StartStep(L) ==
    /\ store
    /\ ~isCapturing
    /\ last'.op = "start"
    /\ last'.fail = "none"
    /\ previousTrackIds' = C4_TrackKeys(L, options')
    /\ \E addf \in C15_AddFailures(last'.failed) : Start(options', "none", L, addf)

\* C15: in a reconciliation, of the listener or of start(), in which
\* addTrack throws for some sources, the session goes on: isCapturing is true
\* after it, no 'error' status is posted (the listener posts nothing, start()
\* posts 'started'), every other track of L with a stream that was not
\* registered is registered, the sources that failed are not, and stay in
\* the snapshot so that the next reconciliation that reports them calls
\* addTrack again; an entry registered before and still reported is as it was.
C15_SourceFailureIsLocal ==
    [][last'.op \in {"sync", "start"} =>
          \A L \in TrackLists(StreamTracks) :
              C15_SyncStep(L) \/ C15_StartStep(L) =>
                  LET toAdd == C4_StreamKeys(L, options') \ DOMAIN tracks
                  IN  /\ isCapturing'
                      /\ emitted' = IF last'.op = "sync" THEN <<>>
                                    ELSE <<StatusEvent("started")>>
                      /\ last'.failed \subseteq toAdd
                      /\ \A k \in toAdd :
                            (k \in DOMAIN tracks') <=> (k \notin last'.failed)
                      /\ last'.failed \subseteq previousTrackIds'
                      /\ \A j \in DOMAIN tracks \cap previousTrackIds' :
                            /\ j \in DOMAIN tracks'
                            /\ tracks'[j] = tracks[j]
                            /\ wired'[j] = wired[j]
                            /\ timers'[j] = timers[j]]_vars

\* C15 witness: start() has just succeeded with an initial reconciliation in
\* which the setup of remote-A threw and remote-B was registered
C15_OneOfTwoFailed ==
    /\ last.op = "start"
    /\ last.fail = "none"
    /\ last.failed = {"remote-A"}
    /\ isCapturing
    /\ emitted = <<StatusEvent("started")>>
    /\ DOMAIN tracks = {"remote-B"}
    /\ previousTrackIds = {"remote-A", "remote-B"}

\* C16: an error of the recorder in a capturing session posts exactly one
\* 'error' status and changes no field of the manager: isCapturing stays
\* true, the recorder stays held, the registry, the snapshot, the graph, the
\* sampler's interval, the silence timers and the store subscription are as
\* they were, so sampling, VAD and reconciliation go on until stop().
C16_RecorderErrorOnlyReports ==
    [][last'.op = "recorderError" =>
          /\ isCapturing /\ isCapturing'
          /\ emitted' = <<StatusEvent("error")>>
          /\ mediaRecorder' # "null"
          /\ UNCHANGED <<audioContext, destinationNode, tracks, isTranscriptionEnabled,
                         options, store, unsubscribe, previousTrackIds, levelInterval,
                         listener, intervalActive, timers, wired, leaked>>]_vars

\* C16 witness: after an error of the recorder, the session still capturing,
\* a sampler tick has just posted the levels of a registered source
C16_SamplingAfterError ==
    /\ last.op = "tick"
    /\ isCapturing
    /\ mediaRecorder = "inactive"
    /\ listener
    /\ tracks # NoTracks
    /\ Len(emitted) = 1
    /\ emitted[1].type = "audio-levels"


\* the level L is min(1, 1.4 * rms) of the window w: rms the root of the mean
\* square (in hundredths, rounded down), L in thousandths
C17_IsLevel(w, L) ==
    LET ms == SumSquares(w, 1) \div Len(w)
    IN  /\ L \in 0..1000
        /\ \E r \in 0..FullScale :
              /\ r * r <= ms /\ ms < (r + 1) * (r + 1)
              /\ L = IF 14 * r > 1000 THEN 1000 ELSE 14 * r
        /\ (w = Silence => L = 0)
        /\ (w = Sine => L >= 950)

\* C17: in every tick of a capturing session, the level of every source is
\* min(1, 1.4 * RMS) of the window read for it, so within [0, 1]; it is 0 for
\* the all-zero window and within 0.05 of 1 for the full-scale sine; the
\* entry's lastLevel holds it and the levels event reports it under the
\* entry's participantId.
C17_LevelIsClampedRms ==
    [][last'.op = "tick" /\ isCapturing =>
          \A ws \in [DOMAIN tracks -> LoudWindows] :
             Tick(ws) =>
                \A k \in DOMAIN tracks :
                   /\ C17_IsLevel(ws[k], tracks'[k].lastLevel)
                   /\ emitted'[Len(emitted')].type = "audio-levels"
                   /\ emitted'[Len(emitted')].levels[tracks'[k].participantId]
                         = tracks'[k].lastLevel]_vars

\* a tick has read an overdriven window for one source and silence for another
C17_ClampedAndSilent ==
    /\ last.op = "tick" /\ isCapturing
    /\ DOMAIN tracks = {"local-audio", "remote-A"}
    /\ tracks["remote-A"].lastLevel = 1000
    /\ tracks["local-audio"].lastLevel = 0
    /\ emitted = <<LevelsEvent((PidOf("remote-A") :> 1000) @@ (PidOf("local-audio") :> 0))>>


\* the audio-levels messages among the messages es
C18_LevelsEvents(es) == SelectSeq(es, LAMBDA e : e.type = "audio-levels")

C18_Participants == { tracks[k].participantId : k \in DOMAIN tracks }

\* C18: a sampler tick of a capturing session posts exactly one audio-levels
\* message when the registry holds a source and none when it is empty; the
\* message is keyed by exactly the participantIds of the sources registered
\* at the tick; the tick adds and removes no source.  A tick outside a
\* session posts nothing and changes nothing (cleanup clears the interval, so
\* no such tick is ever run).
C18_OneLevelsEventPerTick ==
    [][last'.op = "tick" =>
          IF isCapturing
          THEN /\ Len(C18_LevelsEvents(emitted')) = IF tracks = NoTracks THEN 0 ELSE 1
               /\ \A i \in 1..Len(emitted') :
                     emitted'[i].type = "audio-levels" =>
                        /\ i = Len(emitted')
                        /\ emitted'[i].who = C18_Participants
                        /\ DOMAIN emitted'[i].levels = C18_Participants
               /\ DOMAIN tracks' = DOMAIN tracks
          ELSE /\ emitted' = <<>>
               /\ UNCHANGED <<audioContext, destinationNode, mediaRecorder, isCapturing,
                              tracks, isTranscriptionEnabled, options, store, unsubscribe,
                              previousTrackIds, levelInterval, listener, intervalActive,
                              timers, wired, leaked>>]_vars

\* a tick over two sources, one of which started to speak: a voice-activity
\* message, then the one audio-levels message for both participants
C18_TwoSourcesOneEvent ==
    /\ last.op = "tick" /\ isCapturing
    /\ DOMAIN tracks = {"local-audio", "remote-A"}
    /\ Len(emitted) = 2
    /\ emitted[1].type = "voice-activity"
    /\ emitted[2].type = "audio-levels"
    /\ emitted[2].who = {PidOf("local-audio"), PidOf("remote-A")}


\* C19: a source that is not registered has no pending silence timer, and no
\* voice-activity, audio-levels or pcm-frame message names its participant,
\* also after a removeTrack in which a disconnect call threw.
\* Refuted under SpecFault: when sourceNode.disconnect() or
\* analyserNode.disconnect() throws, the script processor stays connected to
\* the context's output and its onaudioprocess keeps posting pcm-frame
\* messages for the removed source.  It holds under SpecVad and SpecGate,
\* where no disconnect call throws.
C19_RemovedSourceIsSilent ==
    \A k \in Keys :
       k \notin DOMAIN tracks =>
          /\ timers[k] = NoTimer
          /\ \A i \in 1..Len(emitted) :
                emitted[i].type \in {"voice-activity", "audio-levels", "pcm-frame"}
                   => PidOf(k) \notin emitted[i].who


\* a message of type t is among the messages of the last step
C20_Emits(t) == \E i \in 1..Len(emitted) : emitted[i].type = t

\* the encoder and the taps of a capturing session are those of its mode
C20_WiredForMode ==
    isCapturing =>
       IF options.rawPCM
       THEN /\ mediaRecorder = "null"
            /\ last.op = "start" => last.fail \notin {"mime", "recorder"}
            /\ \A k \in DOMAIN tracks :
                  /\ "src_dest" \notin wired[k]
                  /\ tracks[k].scriptProcessor
                  /\ {"an_sp", "sp_out"} \subseteq wired[k]
            /\ \A k \in Keys : "src_dest" \notin wired[k]
       ELSE /\ mediaRecorder # "null"
            /\ \A k \in DOMAIN tracks :
                  /\ "src_dest" \in wired[k]
                  /\ ~tracks[k].scriptProcessor
                  /\ wired[k] \cap {"an_sp", "sp_out"} = {}
            /\ ~C20_Emits("pcm-frame")

\* C20: a capturing raw-PCM session has no encoder, no source connected to
\* the mix destination, a sample-frame tap on every registered source, and
\* posts no audio-chunk message; a capturing encoded session has every
\* registered source connected to the mix destination, no sample-frame tap,
\* and posts no pcm-frame message.
\* Refuted under Spec: the read of a chunk that an encoded session started
\* (await event.data.arrayBuffer()) can complete after stop() and a start()
\* in raw-PCM mode, and its continuation posts the audio-chunk message in the
\* raw-PCM session.  C20_WiredForMode, the claim without the raw-PCM
\* session's audio-chunk part, holds under Spec.
C20_ModesExclusive ==
    /\ C20_WiredForMode
    /\ isCapturing /\ options.rawPCM => ~C20_Emits("audio-chunk")


\* the number of capture-status messages with status st among the messages es
C21_Count(es, st) ==
    Len(SelectSeq(es, LAMBDA e : e.type = "capture-status" /\ e.status = st))

\* C21: 'started' and 'stopped' alternate, beginning with 'started': a step
\* posts exactly one 'started' when it takes the manager from idle to
\* capturing and none otherwise, and exactly one 'stopped' when it takes the
\* manager from capturing to idle and none otherwise.  The step that posts
\* 'started' is a start() that leaves the store's listener subscribed when a
\* store is set; the step that posts 'stopped' is a stop() that leaves no
\* graph, encoder, source, interval, listener or timer; a start() that fails
\* leaves the manager idle and posts neither.  (The reads of encoded chunks
\* that outlive stop() are the subject of C1.)
C21_StatusAlternates ==
    [][
        /\ C21_Count(emitted', "started") = IF ~isCapturing /\ isCapturing' THEN 1 ELSE 0
        /\ C21_Count(emitted', "stopped") = IF isCapturing /\ ~isCapturing' THEN 1 ELSE 0
        /\ C21_Count(emitted', "started") = 1 =>
              /\ last'.op = "start" /\ last'.fail = "none"
              /\ store => listener' /\ unsubscribe'
        /\ C21_Count(emitted', "stopped") = 1 =>
              /\ last'.op = "stop"
              /\ tracks' = NoTracks /\ wired' = NoWiring /\ timers' = NoTimers
              /\ ~audioContext' /\ ~destinationNode' /\ mediaRecorder' = "null"
              /\ ~intervalActive' /\ ~listener'
        /\ last'.op = "start" /\ last'.fail # "none" =>
              /\ ~isCapturing /\ ~isCapturing'
              /\ emitted' = <<StatusEvent("error")>>
    ]_vars

\* a stop() ended a session that a start() had begun and whose encoder had
\* delivered data: 'stopped' is posted and the manager is idle
C21_StoppedAfterStarted ==
    /\ last.op = "stop" /\ afterStop
    /\ ~isCapturing
    /\ emitted = <<StatusEvent("stopped")>>
    /\ chunkReads > 0


\* a pending silence timer belongs to a registered entry that is speaking and
\* holds its handle, and every held handle is a pending timer
C22_TimerOfSpeaker ==
    /\ \A k \in DOMAIN tracks : tracks[k].vadTimeout => tracks[k].isSpeaking
    /\ \A k \in Keys :
          timers[k] # NoTimer <=> (k \in DOMAIN tracks /\ tracks[k].vadTimeout)

\* C22: in every state a pending silence timer implies that its entry is
\* speaking, and the pending timers are exactly the handles the entries hold
\* (one per source at most).  In a tick, a sample at or below the threshold
\* read while the timer is pending leaves that timer running with its delay
\* not restarted; a sample whose level equals vadThreshold is below the
\* threshold: a silent entry stays silent and posts nothing, a speaking
\* entry without a timer starts one.
C22_SilenceTimerDiscipline ==
    [][
        /\ C22_TimerOfSpeaker'
        /\ last'.op = "tick" /\ isCapturing /\ options.enableVAD =>
              \A k \in DOMAIN tracks :
                 /\ tracks[k].vadTimeout /\ tracks'[k].lastLevel <= options.vadThreshold =>
                       /\ tracks'[k].vadTimeout /\ tracks'[k].isSpeaking
                       /\ timers'[k] = timers[k] - 1
                       /\ k \notin cleared'
                 /\ tracks'[k].lastLevel = options.vadThreshold =>
                       /\ tracks'[k].isSpeaking = tracks[k].isSpeaking
                       /\ tracks[k].isSpeaking => tracks'[k].vadTimeout
                       /\ tracks[k].isSpeaking /\ ~tracks[k].vadTimeout
                             => timers'[k] = VadTicks
                       /\ C10_NoVoiceEvent(emitted', k)
    ]_vars

\* a source that spoke read two samples equal to the threshold: the first
\* started the timer, the second left it running
C22_SecondSampleAtThreshold ==
    /\ last.op = "tick" /\ isCapturing
    /\ "remote-A" \in DOMAIN tracks
    /\ tracks["remote-A"].lastLevel = options.vadThreshold
    /\ tracks["remote-A"].isSpeaking /\ tracks["remote-A"].vadTimeout
    /\ timers["remote-A"] = VadTicks - 1


\* C23: within a session, the voice-activity messages of each participant
\* alternate, beginning with speaking:true: a speaking:true is posted only
\* when the participant's last message was speaking:false or there was none,
\* a speaking:false only when the last one was speaking:true.
\* Refuted under SpecVoice: removeTrack deletes the entry of a source that is
\* Speaking without posting speaking:false, and the entry that a later
\* addTrack creates for the same participant starts Silent, so its first
\* sample above the threshold posts a second speaking:true in a row.
C23_VoiceAlternates ==
    [][\A i \in 1..Len(emitted') :
          emitted'[i].type = "voice-activity" =>
             \A p \in emitted'[i].who :
                IF emitted'[i].flag THEN voiced[p] \in {"none", "off"}
                ELSE voiced[p] = "on"]_vars


\* every registered entry is Silent and no silence timer is pending
C24_AllSilent ==
    /\ \A k \in DOMAIN tracks : ~tracks[k].isSpeaking /\ ~tracks[k].vadTimeout
    /\ timers = NoTimers

\* C24: a capturing session started with enableLevels=false runs no sampler:
\* it posts no audio-levels and no voice-activity message and every entry
\* stays Silent, whatever enableVAD is.  A capturing session with
\* enableLevels=true and enableVAD=false runs the sampler, posts no
\* voice-activity message, starts no silence timer and keeps every entry
\* Silent.
C24_VadNeedsSampler ==
    isCapturing =>
       /\ ~options.enableLevels =>
             /\ ~intervalActive /\ ~levelInterval
             /\ ~C20_Emits("audio-levels") /\ ~C20_Emits("voice-activity")
             /\ last.op \notin {"tick", "timer"}
             /\ C24_AllSilent
       /\ options.enableLevels /\ ~options.enableVAD =>
             /\ intervalActive
             /\ ~C20_Emits("voice-activity")
             /\ last.op = "tick" /\ tracks # NoTracks => C20_Emits("audio-levels")
             /\ C24_AllSilent

\* a session with the sampler and without VAD read the full-scale sine: the
\* level above the threshold is reported and the entry stays Silent
C24_LoudButSilent ==
    /\ last.op = "tick" /\ isCapturing
    /\ options.enableLevels /\ ~options.enableVAD
    /\ DOMAIN tracks = {"remote-A"}
    /\ tracks["remote-A"].lastLevel > options.vadThreshold
    /\ ~tracks["remote-A"].isSpeaking
    /\ emitted = <<LevelsEvent(PidOf("remote-A") :> Levels[Sine])>>


\* C25: whenever the manager is capturing, the reducer's transcriptionEnabled
\* equals the manager's isTranscriptionEnabled, after any sequence of start(),
\* stop() and dispatched setTranscriptionEnabled / toggleTranscription.
\* Refuted under SpecRedux: an action dispatched while the manager is idle is
\* stored by the reducer, but enableTranscription / disableTranscription
\* return without changing the flag; the next start() begins a session in
\* which the two differ.
C25_ReducerMatchesManager ==
    isCapturing => transcriptionEnabled = isTranscriptionEnabled

====
